---- MODULE Spec2Model ----
(***************************************************************************)
(* Model of the GeniusYield connector: the user-stream listener loop       *)
(* (genius_yield_api_user_stream_data_source.py), the balance refresh, the *)
(* order life cycle, the symbol map and the trading rules                  *)
(* (genius_yield_exchange.py) and the handlers of public stream messages   *)
(* (genius_yield_api_order_book_data_source.py).                           *)
(***************************************************************************)
EXTENDS Integers, Sequences, FiniteSets, TLC

VARIABLES
    \* ---- user-stream listener (_listen_for_user_stream) ----
    lpc,            \* position of the loop: Idle, Fetching, Delivering, BackingOff, Terminated
    fstep,          \* await the loop is suspended at inside _request_user_stream
    data,           \* local variable data of the loop (0: unbound)
    fetches,        \* number of _request_user_stream calls started
    delivered,      \* payloads handed to _process_user_stream_data, in order
    sleepLeft,      \* time left of the running _sleep(5.0)
    slept,          \* time slept since the last iteration ended
    lastOutcome,    \* how the last iteration ended: none, ok, failed
    lastSignal,     \* what the last await of the loop produced
    lastError,      \* exception the handler of the loop caught last
    errorsLogged,   \* number of logger().error calls
    raised,         \* exception that left _listen_for_user_stream
    \* ---- balances (_update_balances) ----
    account_balances,
    account_available_balances,
    bpc,                \* idle, or awaiting the _api_get of _update_balances
    local_asset_names,  \* local variable of _update_balances
    preBalances,        \* account_balances when the running/last refresh started
    lastSnapshot,       \* account_info the last refresh received
    refreshOutcome,     \* none, completed, fetch_failed, parse_failed
    \* ---- orders (_place_order, _place_cancel, _request_order_status) ----
    orders,         \* client order id -> the TrackedOrder of that id
    placing,        \* orders whose create-order request is in flight
    cancelling,     \* orders whose cancel request is in flight
    polling,        \* orders whose status request is in flight
    now,            \* self._time_synchronizer.time()
    symbolMap,      \* exchange symbol -> trading pair (the bidict of the connector)
    postsSent,      \* number of create-order requests sent
    ev,             \* what the last step of an order operation returned or raised
    \* ---- two updates for one order, merged in either arrival order ----
    mPc,            \* idle, drawn, one, two, again
    mOrig,          \* the TrackedOrder before the two updates
    mOrder,         \* the TrackedOrder now
    mPollResp,      \* the status response the polling path received
    mPollAt,        \* the clock when it received it
    mStream,        \* the OrderUpdate of the stream path
    mArr,           \* which of the two is merged first
    \* ---- public stream messages (_parse_trade_message,
    \*      _parse_order_book_diff_message, _channel_originating_message) ----
    hpc,            \* per handler: idle, or awaiting the symbol lookup
    hmsg,           \* per handler: the raw_message it is working on
    queues,         \* per handler: the message_queue it puts its events on
    lookups,        \* number of trading_pair_associated_to_exchange_symbol calls
    handed,         \* number of messages that arrived so far
    bev,            \* what the last step on a message did
    \* ---- symbol map (_initialize_trading_pair_symbols_from_exchange_info) ----
    rpc,            \* idle, or in the loop of the rebuild
    rlist,          \* exchange_info of the running or last rebuild
    ridx,           \* position of the loop in exchange_info
    mapping,        \* local variable mapping of the rebuild
    prevMap,        \* symbolMap when the running or last rebuild started
    rebuildOutcome, \* none, running, installed, failed
    \* ---- trading rules (_format_trading_rules) ----
    rulesInfo,      \* exchange_info_dict of the last call
    rulesRetval,    \* what the call returned
    rulesLogged,    \* number of logger().exception calls of the call
    rulesOutcome    \* none, returned, raised

listenerVars == <<lpc, fstep, data, fetches, delivered, sleepLeft, slept,
                  lastOutcome, lastSignal, lastError, errorsLogged, raised>>
balanceVars == <<account_balances, account_available_balances, bpc,
                 local_asset_names, preBalances, lastSnapshot, refreshOutcome>>
orderVars == <<orders, placing, cancelling, polling, now, symbolMap, postsSent, ev>>
mergeVars == <<mPc, mOrig, mOrder, mPollResp, mPollAt, mStream, mArr>>
bookVars == <<hpc, hmsg, queues, lookups, handed, bev>>
mapperVars == <<rpc, rlist, ridx, mapping, prevMap, rebuildOutcome>>
rulesVars == <<rulesInfo, rulesRetval, rulesLogged, rulesOutcome>>
vars == <<listenerVars, balanceVars, orderVars, mergeVars, bookVars, mapperVars,
          rulesVars>>

\* what the steps of one component leave alone
notListener == <<balanceVars, orderVars, mergeVars, bookVars, mapperVars,
                 rulesVars>>
notBalances == <<listenerVars, orderVars, mergeVars, bookVars, mapperVars,
                 rulesVars>>
notOrders == <<listenerVars, balanceVars, mergeVars, bookVars, mapperVars,
               rulesVars>>
notMerge == <<listenerVars, balanceVars, orderVars, bookVars, mapperVars,
              rulesVars>>
notBook == <<listenerVars, balanceVars, orderVars, mergeVars, mapperVars,
             rulesVars>>
\* the rebuild writes symbolMap and nothing else of the connector
notMapper == <<listenerVars, balanceVars, mergeVars, bookVars, rulesVars,
               orders, placing, cancelling, polling, now, postsSent, ev>>
notRules == <<listenerVars, balanceVars, orderVars, mergeVars, bookVars,
              mapperVars>>

----------------------------------------------------------------------------
(* Bounds *)
MaxFetches == 3
MaxSnapshot == 2
MaxTime == 2
MaxMessages == 2
MaxMarkets == 2
MaxRules == 3

----------------------------------------------------------------------------
(* User-stream listener *)

\* self._sleep(5.0)
BackoffInterval == 5

\* what an awaited call can produce
AwaitFailures == {"CancelledError", "Exception"}

\* the except asyncio.CancelledError clause of lines 38-39 left out
RequestUserStreamRaises_Wraps(raw) == "IOError"

\* _request_user_stream, lines 31-41: the exception that leaves the try
\* around execute_request when the request raises raw
RequestUserStreamRaises(raw) ==
    IF raw = "CancelledError" THEN "CancelledError" ELSE "IOError"

\* the except asyncio.CancelledError clause of lines 54-55 left out
ListenHandler_SwallowsAll(exc) == "backoff"

\* _listen_for_user_stream, lines 54-58: which handler takes an exception
\* raised inside the try
ListenHandler(exc) ==
    IF exc = "CancelledError" THEN "reraise" ELSE "backoff"

\* a shorter sleep than the 5.0 of line 58
ListenBackoff_Short(exc) == 1

\* the time handed to self._sleep by the handler
ListenBackoff(exc) == BackoffInterval

\* the payload at hand delivered once more when the sleep is over
AfterBackoff_Redelivers(payload) == [lpc |-> "Delivering", handed |-> <<payload>>]

\* the end of the handler of lines 56-58: the while True of line 49 goes on
\* with a new fetch, and data is handed to nobody
AfterBackoff(payload) == [lpc |-> "Idle", handed |-> <<>>]

InitListener ==
    /\ lpc = "Idle"
    /\ fstep = "none"
    /\ data = 0
    /\ fetches = 0
    /\ delivered = <<>>
    /\ sleepLeft = 0
    /\ slept = 0
    /\ lastOutcome = "none"
    /\ lastSignal = "none"
    /\ lastError = "none"
    /\ errorsLogged = 0
    /\ raised = "none"

\* an exception reaches the except clauses of the loop (lines 54-58)
ListenCatch(exc) ==
    IF ListenHandler(exc) = "reraise"
    THEN /\ lpc' = "Terminated"
         /\ raised' = exc
         /\ fstep' = "none"
         /\ UNCHANGED <<sleepLeft, slept, lastOutcome, lastError, errorsLogged>>
    ELSE /\ lpc' = "BackingOff"
         /\ fstep' = "none"
         /\ lastError' = exc
         /\ errorsLogged' = errorsLogged + 1
         /\ sleepLeft' = ListenBackoff(exc)
         /\ slept' = 0
         /\ lastOutcome' = "failed"
         /\ UNCHANGED raised

\* while True: ... data = await self._request_user_stream()  (line 49-51)
StartFetch ==
    /\ lpc = "Idle"
    /\ fetches < MaxFetches
    /\ lpc' = "Fetching"
    /\ fstep' = "assistant"
    /\ fetches' = fetches + 1
    /\ lastSignal' = "none"
    /\ UNCHANGED <<data, delivered, sleepLeft, slept, lastOutcome, lastError,
                   errorsLogged, raised>>
    /\ UNCHANGED notListener

\* await self._api_factory.get_rest_assistant() returns (line 30)
AssistantReady ==
    /\ lpc = "Fetching" /\ fstep = "assistant"
    /\ fstep' = "request"
    /\ lastSignal' = "ok"
    /\ UNCHANGED <<lpc, data, fetches, delivered, sleepLeft, slept, lastOutcome,
                   lastError, errorsLogged, raised>>
    /\ UNCHANGED notListener

\* await self._api_factory.get_rest_assistant() raises (line 30, outside the
\* try of _request_user_stream)
AssistantFails ==
    /\ lpc = "Fetching" /\ fstep = "assistant"
    /\ \E raw \in AwaitFailures :
        /\ lastSignal' = raw
        /\ ListenCatch(raw)
    /\ UNCHANGED <<data, fetches, delivered>>
    /\ UNCHANGED notListener

\* execute_request returns; the loop calls _process_user_stream_data(data)
\* (lines 32-37, 43, 51-53)
RequestReturns ==
    /\ lpc = "Fetching" /\ fstep = "request"
    /\ lpc' = "Delivering"
    /\ fstep' = "none"
    /\ data' = fetches
    /\ delivered' = Append(delivered, fetches)
    /\ lastSignal' = "ok"
    /\ UNCHANGED <<fetches, sleepLeft, slept, lastOutcome, lastError,
                   errorsLogged, raised>>
    /\ UNCHANGED notListener

\* execute_request raises (lines 38-41)
RequestFails ==
    /\ lpc = "Fetching" /\ fstep = "request"
    /\ \E raw \in AwaitFailures :
        /\ lastSignal' = raw
        /\ ListenCatch(RequestUserStreamRaises(raw))
    /\ UNCHANGED <<data, fetches, delivered>>
    /\ UNCHANGED notListener

\* await self._process_user_stream_data(data) returns; next iteration (line 53)
DeliverReturns ==
    /\ lpc = "Delivering"
    /\ lpc' = "Idle"
    /\ lastSignal' = "ok"
    /\ lastOutcome' = "ok"
    /\ slept' = 0
    /\ UNCHANGED <<fstep, data, fetches, delivered, sleepLeft, lastError,
                   errorsLogged, raised>>
    /\ UNCHANGED notListener

\* await self._process_user_stream_data(data) raises (line 53)
DeliverFails ==
    /\ lpc = "Delivering"
    /\ \E raw \in AwaitFailures :
        /\ lastSignal' = raw
        /\ ListenCatch(raw)
    /\ UNCHANGED <<data, fetches, delivered>>
    /\ UNCHANGED notListener

\* one time unit of await self._sleep(5.0) passes; the loop continues when
\* the sleep is over (line 58)
BackoffTick ==
    /\ lpc = "BackingOff"
    /\ sleepLeft > 0
    /\ sleepLeft' = sleepLeft - 1
    /\ slept' = slept + 1
    /\ lpc' = IF sleepLeft = 1 THEN AfterBackoff(data).lpc ELSE "BackingOff"
    /\ delivered' = IF sleepLeft = 1 THEN delivered \o AfterBackoff(data).handed
                     ELSE delivered
    /\ lastSignal' = "ok"
    /\ UNCHANGED <<fstep, data, fetches, lastOutcome, lastError,
                   errorsLogged, raised>>
    /\ UNCHANGED notListener

\* the task is cancelled while suspended in self._sleep(5.0): line 58 is
\* inside the except handler, not inside the try
BackoffCancelled ==
    /\ lpc = "BackingOff"
    /\ lpc' = "Terminated"
    /\ raised' = "CancelledError"
    /\ lastSignal' = "CancelledError"
    /\ UNCHANGED <<fstep, data, fetches, delivered, sleepLeft, slept,
                   lastOutcome, lastError, errorsLogged>>
    /\ UNCHANGED notListener

NextListener ==
    \/ StartFetch
    \/ AssistantReady
    \/ AssistantFails
    \/ RequestReturns
    \/ RequestFails
    \/ DeliverReturns
    \/ DeliverFails
    \/ BackoffTick
    \/ BackoffCancelled

----------------------------------------------------------------------------
(* Balances: _update_balances *)

Assets == {"A", "B", "C"}

\* the values the accounts endpoint can carry for an asset
RawBalances == {"1", "2", "3", "4", "x"}

\* Decimal(balance), line 264: the text of a number gives the number, any
\* other text raises InvalidOperation
IsDecimal(raw) == raw \in {"1", "2", "3", "4"}
DecimalOf(raw) ==
    CASE raw = "1" -> 1
      [] raw = "2" -> 2
      [] raw = "3" -> 3
      [] raw = "4" -> 4

EmptyMap == [a \in {} |-> 0]

\* d[k] = v
MapPut(d, k, v) == [x \in (DOMAIN d) \cup {k} |-> IF x = k THEN v ELSE d[x]]

\* del d[k] for every k of ks
MapDrop(d, ks) == [x \in (DOMAIN d) \ ks |-> d[x]]

\* account_info: a JSON object, its items in the order of the response
Snapshots ==
    { s \in UNION { [1..n -> Assets \X RawBalances] : n \in 0..MaxSnapshot } :
        \A i, j \in DOMAIN s : i # j => s[i][1] # s[j][1] }

\* lines 263-268: the loop over balances.items() from entry i on; it stops at
\* the first value Decimal() rejects
RECURSIVE StoreBalances(_, _, _, _, _)
StoreBalances(avail, total, remote, snap, i) ==
    IF i > Len(snap)
    THEN [avail |-> avail, total |-> total, remote |-> remote, ok |-> TRUE]
    ELSE IF ~IsDecimal(snap[i][2])
    THEN [avail |-> avail, total |-> total, remote |-> remote, ok |-> FALSE]
    ELSE LET free_balance == DecimalOf(snap[i][2])
             total_balance == free_balance
         IN  StoreBalances(MapPut(avail, snap[i][1], free_balance),
                           MapPut(total, snap[i][1], total_balance),
                           remote \cup {snap[i][1]}, snap, i + 1)

\* the eviction of lines 270-273 left out
AssetNamesToRemove_None(local, remote) == {}

\* lines 270-273
AssetNamesToRemove(local, remote) == local \ remote

\* the maps emptied before the request, to be filled from its response
BalancesAtRequest_Cleared(balances) == EmptyMap

\* lines 255-257: before the await of line 258 the maps are only read
BalancesAtRequest(balances) == balances

InitBalances ==
    /\ account_balances = EmptyMap
    /\ account_available_balances = EmptyMap
    /\ bpc = "idle"
    /\ local_asset_names = {}
    /\ preBalances = EmptyMap
    /\ lastSnapshot = <<>>
    /\ refreshOutcome = "none"

\* _update_balances up to its await (lines 255-258)
UpdateBalancesStart ==
    /\ bpc = "idle"
    /\ bpc' = "awaiting"
    /\ local_asset_names' = DOMAIN account_balances
    /\ preBalances' = account_balances
    /\ lastSnapshot' = <<>>
    /\ refreshOutcome' = "none"
    /\ account_balances' = BalancesAtRequest(account_balances)
    /\ account_available_balances' = BalancesAtRequest(account_available_balances)
    /\ UNCHANGED notBalances

\* the _api_get of line 258 raises
UpdateBalancesFetchFails ==
    /\ bpc = "awaiting"
    /\ bpc' = "idle"
    /\ refreshOutcome' = "fetch_failed"
    /\ UNCHANGED <<account_balances, account_available_balances,
                   local_asset_names, preBalances, lastSnapshot>>
    /\ UNCHANGED notBalances

\* the _api_get returns account_info; lines 262-273 run without an await
UpdateBalancesFinish ==
    /\ bpc = "awaiting"
    /\ \E snap \in Snapshots :
        LET r == StoreBalances(account_available_balances, account_balances,
                               {}, snap, 1)
            gone == AssetNamesToRemove(local_asset_names, r.remote)
        IN  /\ lastSnapshot' = snap
            /\ IF r.ok
               THEN /\ account_available_balances' = MapDrop(r.avail, gone)
                    /\ account_balances' = MapDrop(r.total, gone)
                    /\ refreshOutcome' = "completed"
               ELSE /\ account_available_balances' = r.avail
                    /\ account_balances' = r.total
                    /\ refreshOutcome' = "parse_failed"
    /\ bpc' = "idle"
    /\ UNCHANGED <<local_asset_names, preBalances>>
    /\ UNCHANGED notBalances

NextBalances ==
    \/ UpdateBalancesStart
    \/ UpdateBalancesFetchFails
    \/ UpdateBalancesFinish

----------------------------------------------------------------------------
(* Orders: _place_order, _place_cancel, _request_order_status *)

OrderIds == {"o1"}
Pairs == {"ADA-GENS", "FOO-BAR"}
ExchangeIds == {"tx1"}

OrderStates == {"PENDING_CREATE", "OPEN", "PARTIALLY_FILLED", "FILLED",
                "PENDING_CANCEL", "CANCELED", "FAILED"}
TerminalStates == {"FILLED", "CANCELED", "FAILED"}

\* the fragments _place_order looks for in str(e), lines 193-194
Marker503 == "status is 503"
MarkerOverload == "Unknown error, please check your request or try again later."

\* what a request gives: a JSON object (with or without "transaction_id" and
\* "status") or a failure of some class whose text holds some fragments
NoResponse == [kind |-> "none", transaction_id |-> "absent", status |-> "none",
               cls |-> "none", text |-> {}]
OkResponse(tid, status) ==
    [NoResponse EXCEPT !.kind = "ok", !.transaction_id = tid, !.status = status]
FailResponse(cls, text) ==
    [NoResponse EXCEPT !.kind = "fail", !.cls = cls, !.text = text]

FailResponses ==
    { FailResponse(cls, text) : cls \in {"IOError", "Exception"},
                                text \in SUBSET {Marker503, MarkerOverload} }

\* the create-order request, line 185
PostResponses ==
    { OkResponse(tid, "none") : tid \in ExchangeIds \cup {"absent"} }
    \cup FailResponses

\* the overload clause of lines 195-197 never taken
IsServerOverloaded_Never(text) == FALSE

\* "or" for the "and" of lines 193-194
IsServerOverloaded_Either(text) == Marker503 \in text \/ MarkerOverload \in text

\* lines 193-194
IsServerOverloaded(text) == Marker503 \in text /\ MarkerOverload \in text

\* lines 184-200: what _place_order gives for a response to its request, with
\* the clock at t.  A missing "transaction_id" is a KeyError, which the
\* except IOError clause does not take.
PlaceOrderResult(resp, t) ==
    IF resp.kind = "ok"
    THEN IF resp.transaction_id = "absent"
         THEN [outcome |-> "raised", o_id |-> "none", transact_time |-> 0]
         ELSE [outcome |-> "returned", o_id |-> resp.transaction_id,
               transact_time |-> t]
    ELSE IF resp.cls = "IOError" /\ IsServerOverloaded(resp.text)
         THEN [outcome |-> "returned", o_id |-> "UNKNOWN", transact_time |-> t]
         ELSE [outcome |-> "raised", o_id |-> "none", transact_time |-> 0]

\* exchange_symbol_associated_to_pair: the inverse of the bidict, "none" when
\* the pair is not mapped (the call raises)
SymbolOfPair(pair) ==
    IF \E sym \in DOMAIN symbolMap : symbolMap[sym] = pair
    THEN CHOOSE sym \in DOMAIN symbolMap : symbolMap[sym] = pair
    ELSE "none"

\* the lookup taken into the try of line 184 and its failure for an overload
LookupFailureResult_Sentinel(pair) ==
    [outcome |-> "returned", o_id |-> "UNKNOWN", sent |-> 0]

\* line 176 stands before the try of line 184 and before the request of
\* line 185: a lookup that raises leaves _place_order at once, with no id
\* and no request sent
LookupFailureResult(pair) ==
    [outcome |-> "raised", o_id |-> "none", sent |-> 0]

\* the cancel request, line 206: "transaction_id" set, empty or absent
CancelResponses ==
    { OkResponse(tid, "none") : tid \in {"tx1", "", "absent"} }
    \cup { FailResponse("IOError", {}) }

\* the test of line 210 left out: every answered cancel is confirmed
PlaceCancelResult_Always(resp) == TRUE

\* the presence of the key tested instead of its value
PlaceCancelResult_KeyPresent(resp) == resp.transaction_id # "absent"

\* lines 210-212: cancel_result.get("transaction_id") is truthy
PlaceCancelResult(resp) == resp.transaction_id \notin {"", "absent"}

\* the status vocabulary of the exchange and CONSTANTS.ORDER_STATE, line 242:
\* a status the table does not hold raises KeyError
ExchangeStatuses == OrderStates \cup {"?"}
ORDER_STATE(status) == status

\* the status request, line 238
StatusResponses ==
    { OkResponse(tid, status) : tid \in ExchangeIds, status \in ExchangeStatuses }
    \cup { FailResponse("IOError", {}) }

\* the exchange id of the tracked order for the one of the response
OrderUpdateOfStatus_KeepsId(oid, resp, t) ==
    [client_order_id |-> oid,
     exchange_order_id |-> orders[oid].exchange_order_id,
     update_timestamp |-> t,
     new_state |-> resp.status]

\* the time of the order's creation for the clock of line 248
OrderUpdateOfStatus_NoClock(oid, resp, t) ==
    [client_order_id |-> oid,
     exchange_order_id |-> resp.transaction_id,
     update_timestamp |-> 0,
     new_state |-> resp.status]

\* lines 242-250: the OrderUpdate _request_order_status builds from the
\* response for tracked order oid, with the clock at t
OrderUpdateOfStatus(oid, resp, t) ==
    [client_order_id |-> oid,
     exchange_order_id |-> resp.transaction_id,
     update_timestamp |-> t,
     new_state |-> ORDER_STATE(resp.status)]

\* OrderState: the position of a state in the life cycle
Rank(st) ==
    CASE st = "PENDING_CREATE" -> 0
      [] st = "OPEN" -> 1
      [] st = "PARTIALLY_FILLED" -> 2
      [] st = "PENDING_CANCEL" -> 3
      [] st \in TerminalStates -> 4

\* a transition the life cycle allows: forward, or none
Forward(from, to) == from = to \/ Rank(to) > Rank(from)

\* the state and exchange id of an order, as an event records them
Was(o) == [state |-> o.state, exchange_order_id |-> o.exchange_order_id]

\* a client order id not used yet
NoOrder == [phase |-> "new", pair |-> "none", state |-> "none",
            exchange_order_id |-> "none", last_update_timestamp |-> 0,
            visited |-> {}]

\* the TrackedOrder submit registers
StartTracking(pair, t) ==
    [phase |-> "tracked", pair |-> pair, state |-> "PENDING_CREATE",
     exchange_order_id |-> "none", last_update_timestamp |-> t,
     visited |-> {"PENDING_CREATE"}]

\* the merge of an OrderUpdate into a TrackedOrder: an update older than the
\* order is dropped, and so is one that would move the order backwards
ApplyUpdate(o, u) ==
    IF /\ o.phase = "tracked"
       /\ u.update_timestamp >= o.last_update_timestamp
       /\ Forward(o.state, u.new_state)
    THEN [o EXCEPT !.state = u.new_state,
                   !.exchange_order_id = u.exchange_order_id,
                   !.last_update_timestamp = u.update_timestamp,
                   !.visited = @ \cup {u.new_state}]
    ELSE o

\* submit after _place_order: a raise drops the order, the sentinel leaves it
\* pending, a transaction id opens it
TrackAfterPlace(o, oid, r) ==
    CASE r.outcome = "raised" -> [o EXCEPT !.phase = "rejected"]
      [] r.outcome = "returned" /\ r.o_id = "UNKNOWN" ->
            [o EXCEPT !.exchange_order_id = IF @ = "none" THEN "UNKNOWN" ELSE @]
      [] OTHER ->
            ApplyUpdate(o, [client_order_id |-> oid,
                            exchange_order_id |-> r.o_id,
                            update_timestamp |-> r.transact_time,
                            new_state |-> "OPEN"])

\* cancel after _place_cancel: a confirmed cancel closes the order (the
\* cancel request is synchronous, lines 101-103), any other leaves it alone
TrackAfterCancel(o, oid, confirmed, t) ==
    IF confirmed
    THEN ApplyUpdate(o, [client_order_id |-> oid,
                         exchange_order_id |-> o.exchange_order_id,
                         update_timestamp |-> t,
                         new_state |-> "CANCELED"])
    ELSE o

NoEvent == [op |-> "none", oid |-> "none", outcome |-> "none", id |-> "none",
            ts |-> 0, st |-> "none", in |-> NoResponse,
            was |-> [state |-> "none", exchange_order_id |-> "none"]]

InitOrders ==
    /\ orders = [oid \in OrderIds |-> NoOrder]
    /\ placing = {}
    /\ cancelling = {}
    /\ polling = {}
    /\ now = 0
    /\ symbolMap = [sym \in {"ADA_GENS"} |-> "ADA-GENS"]
    /\ postsSent = 0
    /\ ev = NoEvent

\* the synchronized clock advances
Tick ==
    /\ now < MaxTime
    /\ now' = now + 1
    /\ UNCHANGED <<orders, placing, cancelling, polling, symbolMap, postsSent, ev>>
    /\ UNCHANGED notOrders

\* submit: the order is registered in PENDING_CREATE and _place_order runs to
\* its request (lines 172-188); an unmapped pair raises at line 176
SubmitStart(oid, pair) ==
    /\ orders[oid].phase = "new"
    /\ IF SymbolOfPair(pair) = "none"
       THEN LET r == LookupFailureResult(pair)
            IN  /\ orders' = [orders EXCEPT ![oid] =
                        IF r.outcome = "raised"
                        THEN [NoOrder EXCEPT !.phase = "rejected", !.pair = pair]
                        ELSE [StartTracking(pair, now) EXCEPT
                                  !.exchange_order_id = r.o_id]]
                /\ ev' = [NoEvent EXCEPT !.op = "place", !.oid = oid,
                                         !.outcome = r.outcome, !.id = r.o_id]
                /\ postsSent' = postsSent + r.sent
                /\ UNCHANGED placing
       ELSE /\ orders' = [orders EXCEPT ![oid] = StartTracking(pair, now)]
            /\ placing' = placing \cup {oid}
            /\ postsSent' = postsSent + 1
            /\ ev' = [NoEvent EXCEPT !.op = "post", !.oid = oid]
    /\ UNCHANGED <<cancelling, polling, now, symbolMap>>
    /\ UNCHANGED notOrders

\* the create-order request ends and _place_order returns or raises (lines
\* 189-200)
SubmitFinish(oid, resp) ==
    /\ oid \in placing
    /\ placing' = placing \ {oid}
    /\ LET r == PlaceOrderResult(resp, now)
       IN  /\ ev' = [NoEvent EXCEPT !.op = "place", !.oid = oid,
                         !.outcome = r.outcome, !.id = r.o_id,
                         !.ts = r.transact_time, !.in = resp,
                         !.was = Was(orders[oid])]
           /\ orders' = [orders EXCEPT ![oid] = TrackAfterPlace(@, oid, r)]
    /\ UNCHANGED <<cancelling, polling, now, symbolMap, postsSent>>
    /\ UNCHANGED notOrders

\* cancel: _place_cancel up to its request (lines 203-209)
CancelStart(oid) ==
    /\ orders[oid].phase = "tracked"
    /\ oid \notin cancelling
    /\ cancelling' = cancelling \cup {oid}
    /\ ev' = [NoEvent EXCEPT !.op = "delete", !.oid = oid]
    /\ UNCHANGED <<orders, placing, polling, now, symbolMap, postsSent>>
    /\ UNCHANGED notOrders

\* the cancel request ends (lines 206-212): it raises, or _place_cancel
\* returns whether the cancel is confirmed
CancelFinish(oid, resp) ==
    /\ oid \in cancelling
    /\ cancelling' = cancelling \ {oid}
    /\ IF resp.kind = "fail"
       THEN /\ ev' = [NoEvent EXCEPT !.op = "cancel", !.oid = oid,
                                     !.outcome = "raised", !.in = resp,
                                     !.was = Was(orders[oid])]
            /\ UNCHANGED orders
       ELSE /\ ev' = [NoEvent EXCEPT !.op = "cancel", !.oid = oid,
                         !.outcome = IF PlaceCancelResult(resp) THEN "true"
                                     ELSE "false",
                         !.in = resp, !.was = Was(orders[oid])]
            /\ orders' = [orders EXCEPT ![oid] =
                 TrackAfterCancel(@, oid, PlaceCancelResult(resp), now)]
    /\ UNCHANGED <<placing, polling, now, symbolMap, postsSent>>
    /\ UNCHANGED notOrders

\* refreshStatus: _request_order_status up to its request (lines 237-240)
PollStart(oid) ==
    /\ orders[oid].phase = "tracked"
    /\ oid \notin polling
    /\ SymbolOfPair(orders[oid].pair) # "none"
    /\ polling' = polling \cup {oid}
    /\ ev' = [NoEvent EXCEPT !.op = "get", !.oid = oid,
                             !.id = orders[oid].exchange_order_id]
    /\ UNCHANGED <<orders, placing, cancelling, now, symbolMap, postsSent>>
    /\ UNCHANGED notOrders

\* the status request ends (lines 238-252): it raises, or names a status
\* ORDER_STATE does not hold, or gives the OrderUpdate, which is merged
PollFinish(oid, resp) ==
    /\ oid \in polling
    /\ polling' = polling \ {oid}
    /\ IF resp.kind = "fail" \/ resp.status \notin OrderStates
       THEN /\ ev' = [NoEvent EXCEPT !.op = "poll", !.oid = oid,
                                     !.outcome = "raised", !.in = resp,
                                     !.was = Was(orders[oid])]
            /\ UNCHANGED orders
       ELSE LET u == OrderUpdateOfStatus(oid, resp, now)
            IN  /\ ev' = [NoEvent EXCEPT !.op = "poll", !.oid = oid,
                                         !.outcome = "returned",
                                         !.id = u.exchange_order_id,
                                         !.ts = u.update_timestamp,
                                         !.st = u.new_state, !.in = resp,
                                         !.was = Was(orders[oid])]
                /\ orders' = [orders EXCEPT ![oid] = ApplyUpdate(@, u)]
    /\ UNCHANGED <<placing, cancelling, now, symbolMap, postsSent>>
    /\ UNCHANGED notOrders

\* an OrderUpdate derived from the user stream is merged
StreamUpdate(oid, st, tid, t) ==
    /\ orders[oid].phase = "tracked"
    /\ LET u == [client_order_id |-> oid, exchange_order_id |-> tid,
                 update_timestamp |-> t, new_state |-> st]
       IN  /\ ev' = [NoEvent EXCEPT !.op = "stream", !.oid = oid,
                                    !.outcome = "returned", !.id = tid,
                                    !.ts = t, !.st = st, !.was = Was(orders[oid])]
           /\ orders' = [orders EXCEPT ![oid] = ApplyUpdate(@, u)]
    /\ UNCHANGED <<placing, cancelling, polling, now, symbolMap, postsSent>>
    /\ UNCHANGED notOrders

NextOrders ==
    \/ Tick
    \/ \E oid \in OrderIds, pair \in Pairs : SubmitStart(oid, pair)
    \/ \E oid \in OrderIds, resp \in PostResponses : SubmitFinish(oid, resp)
    \/ \E oid \in OrderIds : CancelStart(oid)
    \/ \E oid \in OrderIds, resp \in CancelResponses : CancelFinish(oid, resp)
    \/ \E oid \in OrderIds : PollStart(oid)
    \/ \E oid \in OrderIds, resp \in StatusResponses : PollFinish(oid, resp)
    \/ \E oid \in OrderIds, st \in OrderStates \ {"PENDING_CREATE"},
          tid \in ExchangeIds, t \in 0..now : StreamUpdate(oid, st, tid, t)

----------------------------------------------------------------------------
(* Two OrderUpdates for one order, one of each path, merged in either order *)

\* the tracked orders the two updates can meet
MergeOrders ==
    { [phase |-> "tracked", pair |-> "ADA-GENS", state |-> st,
       exchange_order_id |-> id, last_update_timestamp |-> t,
       visited |-> {st}] :
         st \in OrderStates, id \in {"UNKNOWN", "tx1"}, t \in 0..MaxTime }

MergeStreamUpdates ==
    { [client_order_id |-> "o1", exchange_order_id |-> "tx1",
       update_timestamp |-> t, new_state |-> st] :
         st \in OrderStates \ {"PENDING_CREATE"}, t \in 0..MaxTime }

MergePollResponses == { OkResponse("tx1", st) : st \in OrderStates }

InitMerge ==
    /\ mPc = "idle"
    /\ mOrig = NoOrder
    /\ mOrder = NoOrder
    /\ mPollResp = NoResponse
    /\ mPollAt = 0
    /\ mStream = [client_order_id |-> "o1", exchange_order_id |-> "none",
                  update_timestamp |-> 0, new_state |-> "none"]
    /\ mArr = "none"

\* the update of the polling path (lines 242-252)
MergePollUpdate == OrderUpdateOfStatus("o1", mPollResp, mPollAt)

MergeUpdate(which) == IF which = "poll" THEN MergePollUpdate ELSE mStream
MergeOther(which) == IF which = "poll" THEN "stream" ELSE "poll"

\* an order, a status response with the time of its receipt, a stream update
\* and an arrival order are chosen
MergeDraw ==
    /\ mPc = "idle"
    /\ \E o \in MergeOrders, resp \in MergePollResponses, t \in 0..MaxTime,
          su \in MergeStreamUpdates, arr \in {"poll", "stream"} :
        /\ mOrig' = o
        /\ mOrder' = o
        /\ mPollResp' = resp
        /\ mPollAt' = t
        /\ mStream' = su
        /\ mArr' = arr
    /\ mPc' = "drawn"
    /\ UNCHANGED notMerge

\* the update that arrives first is merged
MergeFirst ==
    /\ mPc = "drawn"
    /\ mOrder' = ApplyUpdate(mOrder, MergeUpdate(mArr))
    /\ mPc' = "one"
    /\ UNCHANGED <<mOrig, mPollResp, mPollAt, mStream, mArr>>
    /\ UNCHANGED notMerge

\* the other one is merged
MergeSecond ==
    /\ mPc = "one"
    /\ mOrder' = ApplyUpdate(mOrder, MergeUpdate(MergeOther(mArr)))
    /\ mPc' = "two"
    /\ UNCHANGED <<mOrig, mPollResp, mPollAt, mStream, mArr>>
    /\ UNCHANGED notMerge

\* one of the two is delivered once more
MergeAgain(which) ==
    /\ mPc = "two"
    /\ mOrder' = ApplyUpdate(mOrder, MergeUpdate(which))
    /\ mPc' = "again"
    /\ UNCHANGED <<mOrig, mPollResp, mPollAt, mStream, mArr>>
    /\ UNCHANGED notMerge

NextMerge ==
    \/ MergeDraw
    \/ MergeFirst
    \/ MergeSecond
    \/ \E which \in {"poll", "stream"} : MergeAgain(which)

----------------------------------------------------------------------------
(* Public stream messages: _parse_trade_message,
   _parse_order_book_diff_message, _channel_originating_message *)

\* self._trade_messages_queue_key and self._diff_messages_queue_key
TradeKey == "trade"
DiffKey == "order_book_diff"
Handlers == {TradeKey, DiffKey}

\* CONSTANTS.DIFF_EVENT_TYPE, line 88
DIFF_EVENT_TYPE == "diff"

\* the "e" field of a message: the diff marker, another type, or no field
EventTypes == {DIFF_EVENT_TYPE, "trade", "absent"}

\* the "market_id" field of a message: mapped, not mapped, or no field
MarketIds == {"ADA_GENS", "FOO_BAR", "absent"}

\* how a message comes to a handler: through _channel_originating_message,
\* or handed to the handler as it is
Vias == {"classified", "direct"}

NoMessage == [seq |-> 0, result |-> FALSE, e |-> "absent",
              market_id |-> "absent", via |-> "none"]

\* the raw messages: result says whether the key "result" is in the
\* message, seq is its arrival number, given on arrival
RawMessages ==
    [seq : {0}, result : BOOLEAN, e : EventTypes, market_id : MarketIds,
     via : Vias]

\* message raw as the n-th arrival
Arrival(raw, n) == [raw EXCEPT !.seq = n]

\* the test of lines 86 left out
ChannelOriginatingMessage_IgnoresResult(msg) ==
    IF msg.e = DIFF_EVENT_TYPE THEN DiffKey ELSE TradeKey

\* the two keys of lines 88-89 exchanged
ChannelOriginatingMessage_Swapped(msg) ==
    IF msg.result THEN ""
    ELSE IF msg.e = DIFF_EVENT_TYPE THEN TradeKey ELSE DiffKey

\* _channel_originating_message, lines 84-90; event_message.get("e") of a
\* message without "e" is None, which is not the diff marker
ChannelOriginatingMessage(msg) ==
    IF msg.result THEN ""
    ELSE IF msg.e = DIFF_EVENT_TYPE THEN DiffKey ELSE TradeKey

\* the test of lines 71 and 78 left out
SkipsMessage_Never(msg) == FALSE

\* lines 71 and 78: "result" not in raw_message fails
SkipsMessage(msg) == msg.result

\* trading_pair_associated_to_exchange_symbol, lines 72 and 79: the pair of
\* the symbol, "none" when the symbol is not mapped (the call raises)
TradingPairOfSymbol(sym) ==
    IF sym \in DOMAIN symbolMap THEN symbolMap[sym] ELSE "none"

\* trade_message_from_exchange / diff_message_from_exchange, lines 73-74 and
\* 80-81: the event of handler h for raw_message msg and its trading pair
EventOf(h, msg, pair) == [type |-> h, trading_pair |-> pair, raw |-> msg]

\* a failed lookup caught and the message given up
ParseOutcome_Swallows(pair) == IF pair = "none" THEN "drop" ELSE "put"

\* lines 72-75 and 79-82: no handler around the lookup, so its failure leaves
\* the handler; its result is converted and put on the queue
ParseOutcome(pair) == IF pair = "none" THEN "raise" ELSE "put"

NoBookEvent == [step |-> "none", h |-> "none", msg |-> NoMessage,
                channel |-> "none", outcome |-> "none", error |-> "none"]

InitBook ==
    /\ hpc = [h \in Handlers |-> "idle"]
    /\ hmsg = [h \in Handlers |-> NoMessage]
    /\ queues = [h \in Handlers |-> <<>>]
    /\ lookups = 0
    /\ handed = 0
    /\ bev = NoBookEvent

\* a message classified as belonging to no channel is handed to no handler
RouteNone(raw) ==
    /\ handed < MaxMessages
    /\ raw.via = "classified"
    /\ ChannelOriginatingMessage(raw) \notin Handlers
    /\ handed' = handed + 1
    /\ bev' = [NoBookEvent EXCEPT !.step = "route",
                    !.msg = Arrival(raw, handed + 1),
                    !.channel = ChannelOriginatingMessage(raw),
                    !.outcome = "unrouted"]
    /\ UNCHANGED <<hpc, hmsg, queues, lookups>>
    /\ UNCHANGED notBook

\* handler h is called with msg (lines 70-72, 77-79): a message with "result"
\* is skipped, one without "market_id" raises KeyError, any other starts the
\* symbol lookup.  A classified message comes to the handler of its channel.
HandlerStart(h, raw) ==
    /\ handed < MaxMessages
    /\ hpc[h] = "idle"
    /\ raw.via = "classified" => ChannelOriginatingMessage(raw) = h
    /\ handed' = handed + 1
    /\ LET msg == Arrival(raw, handed + 1)
           e == [NoBookEvent EXCEPT !.step = "start", !.h = h, !.msg = msg,
                    !.channel = IF msg.via = "classified"
                                THEN ChannelOriginatingMessage(msg) ELSE "none"]
       IN  IF SkipsMessage(msg)
           THEN /\ bev' = [e EXCEPT !.outcome = "returned"]
                /\ UNCHANGED <<hpc, hmsg, lookups>>
           ELSE IF msg.market_id = "absent"
           THEN /\ bev' = [e EXCEPT !.outcome = "raised", !.error = "KeyError"]
                /\ UNCHANGED <<hpc, hmsg, lookups>>
           ELSE /\ bev' = [e EXCEPT !.outcome = "awaiting"]
                /\ hpc' = [hpc EXCEPT ![h] = "lookup"]
                /\ hmsg' = [hmsg EXCEPT ![h] = msg]
                /\ lookups' = lookups + 1
    /\ UNCHANGED queues
    /\ UNCHANGED notBook

\* the symbol lookup of handler h ends (lines 72-75, 79-82): an unmapped
\* symbol raises out of the handler, a mapped one gives the event, which is
\* put on the queue of the handler
HandlerFinish(h) ==
    /\ hpc[h] = "lookup"
    /\ hpc' = [hpc EXCEPT ![h] = "idle"]
    /\ hmsg' = [hmsg EXCEPT ![h] = NoMessage]
    /\ LET msg == hmsg[h]
           pair == TradingPairOfSymbol(msg.market_id)
           e == [NoBookEvent EXCEPT !.step = "finish", !.h = h, !.msg = msg]
       IN  CASE ParseOutcome(pair) = "raise" ->
                    /\ bev' = [e EXCEPT !.outcome = "raised",
                                        !.error = "UnknownMappingError"]
                    /\ UNCHANGED queues
             [] ParseOutcome(pair) = "drop" ->
                    /\ bev' = [e EXCEPT !.outcome = "returned"]
                    /\ UNCHANGED queues
             [] OTHER ->
                    /\ bev' = [e EXCEPT !.outcome = "returned"]
                    /\ queues' = [queues EXCEPT ![h] =
                                      Append(@, EventOf(h, msg, pair))]
    /\ UNCHANGED <<lookups, handed>>
    /\ UNCHANGED notBook

NextBook ==
    \/ \E raw \in RawMessages : RouteNone(raw)
    \/ \E h \in Handlers, raw \in RawMessages : HandlerStart(h, raw)
    \/ \E h \in Handlers : HandlerFinish(h)

----------------------------------------------------------------------------
(* Symbol map: _initialize_trading_pair_symbols_from_exchange_info *)

\* the fields of an entry of exchange_info; "absent": the entry lacks it
MarketSymbols == {"ADA_GENS", "FOO_BAR", "absent"}
MarketAssets == {[base_asset |-> "ADA", target_asset |-> "GENS"],
                 [base_asset |-> "FOO", target_asset |-> "BAR"],
                 [base_asset |-> "absent", target_asset |-> "GENS"]}

MarketEntries ==
    { [market_id |-> sym, base_asset |-> a.base_asset,
       target_asset |-> a.target_asset] : sym \in MarketSymbols, a \in MarketAssets }

\* exchange_info: a list of entries
MarketLists ==
    UNION { [1..n -> MarketEntries] : n \in 0..MaxMarkets }

\* combine_to_hb_trading_pair(base, quote), line 278
combine_to_hb_trading_pair(base, quote) == base \o "-" \o quote

\* an entry has the three fields lines 278-279 read
HasFields(entry) ==
    /\ entry.market_id # "absent"
    /\ entry.base_asset # "absent"
    /\ entry.target_asset # "absent"

\* a plain dict for the bidict of line 276: a second symbol may take a pair
BidictPut_PlainDict(m, sym, pair) == [ok |-> TRUE, map |-> MapPut(m, sym, pair)]

\* mapping[sym] = pair on a bidict, line 278: a pair another symbol holds
\* raises ValueDuplicationError, a symbol already in the bidict is overwritten
BidictPut(m, sym, pair) ==
    IF \E other \in DOMAIN m : other # sym /\ m[other] = pair
    THEN [ok |-> FALSE, map |-> m]
    ELSE [ok |-> TRUE, map |-> MapPut(m, sym, pair)]

\* the loop starts from the entries of the installed map
NewMapping_FromInstalled(installed) == installed

\* mapping = bidict(), line 276: the loop starts from an empty bidict of its
\* own, whatever is installed
NewMapping(installed) == EmptyMap

\* self._set_trading_pair_symbol_map(mapping), line 280: the map the
\* connector holds after it, given the one it held
SetTradingPairSymbolMap(old, new) == new

InitMapper ==
    /\ rpc = "idle"
    /\ rlist = <<>>
    /\ ridx = 0
    /\ mapping = EmptyMap
    /\ prevMap = EmptyMap
    /\ rebuildOutcome = "none"

\* the rebuild is called with exchange_info (lines 275-276).  The function
\* has no await; its loop is taken entry by entry here, so that a reader
\* anywhere between two entries is covered.
RebuildStart(exchange_info) ==
    /\ rpc = "idle"
    /\ rpc' = "loop"
    /\ rlist' = exchange_info
    /\ ridx' = 1
    /\ mapping' = NewMapping(symbolMap)
    /\ prevMap' = symbolMap
    /\ rebuildOutcome' = "running"
    /\ UNCHANGED symbolMap
    /\ UNCHANGED notMapper

\* one entry of the loop (lines 277-279): a missing field raises KeyError,
\* a pair held by another symbol raises out of the bidict; both end the
\* rebuild before line 280
RebuildStep ==
    /\ rpc = "loop"
    /\ ridx <= Len(rlist)
    /\ LET symbol_data == rlist[ridx]
           put == BidictPut(mapping, symbol_data.market_id,
                            combine_to_hb_trading_pair(symbol_data.base_asset,
                                                       symbol_data.target_asset))
       IN  IF HasFields(symbol_data) /\ put.ok
           THEN /\ mapping' = put.map
                /\ ridx' = ridx + 1
                /\ UNCHANGED <<rpc, rebuildOutcome>>
           ELSE /\ rpc' = "idle"
                /\ rebuildOutcome' = "failed"
                /\ UNCHANGED <<mapping, ridx>>
    /\ UNCHANGED <<rlist, prevMap, symbolMap>>
    /\ UNCHANGED notMapper

\* the loop is over: the new map is installed (line 280)
RebuildInstall ==
    /\ rpc = "loop"
    /\ ridx > Len(rlist)
    /\ symbolMap' = SetTradingPairSymbolMap(symbolMap, mapping)
    /\ rpc' = "idle"
    /\ rebuildOutcome' = "installed"
    /\ UNCHANGED <<rlist, ridx, mapping, prevMap>>
    /\ UNCHANGED notMapper

NextMapper ==
    \/ \E exchange_info \in MarketLists : RebuildStart(exchange_info)
    \/ RebuildStep
    \/ RebuildInstall

----------------------------------------------------------------------------
(* Trading rules: _format_trading_rules *)

\* an entry of exchange_info_dict with every field in place; "absent" says
\* the entry lacks the field, filters says whether it has "filters"
RuleEntry(base, target, qty) ==
    [base_asset |-> base, target_asset |-> target, filters |-> TRUE,
     minQty |-> qty, tickSize |-> "1", stepSize |-> "1", minNotional |-> "1"]

\* the numeric fields of "filters", in the order lines 220-223 read them
FilterFields == <<"minQty", "tickSize", "stepSize", "minNotional">>

\* the entries: two with every field in place, and the first of them with
\* one field missing or one value that is not a number
RuleEntries ==
    LET good == RuleEntry("ADA", "GENS", "1")
    IN  {good, RuleEntry("FOO", "BAR", "2")}
        \cup {[good EXCEPT !.base_asset = "absent"],
              [good EXCEPT !.target_asset = "absent"],
              [good EXCEPT !.filters = FALSE]}
        \cup {[good EXCEPT ![FilterFields[k]] = v] :
                  k \in DOMAIN FilterFields, v \in {"absent", "x"}}

\* exchange_info_dict: a list of entries
RuleLists == UNION { [1..n -> RuleEntries] : n \in 0..MaxRules }

\* lines 219-223: the first exception the body of the try raises for an
\* entry, "none" when it raises none
RuleError(rule) ==
    IF rule.base_asset = "absent" \/ rule.target_asset = "absent"
            \/ ~rule.filters
    THEN "KeyError"
    ELSE LET bad == {k \in DOMAIN FilterFields :
                        \/ rule[FilterFields[k]] = "absent"
                        \/ ~IsDecimal(rule[FilterFields[k]])}
         IN  IF bad = {} THEN "none"
             ELSE LET k == CHOOSE k \in bad : \A j \in bad : k <= j
                  IN  IF rule[FilterFields[k]] = "absent" THEN "KeyError"
                      ELSE "InvalidOperation"

\* lines 219-231: the TradingRule of an entry that raises nothing
TradingRuleOf(rule) ==
    [trading_pair |-> combine_to_hb_trading_pair(rule.base_asset,
                                                 rule.target_asset),
     min_order_size |-> DecimalOf(rule.minQty),
     min_price_increment |-> DecimalOf(rule.tickSize),
     min_base_amount_increment |-> DecimalOf(rule.stepSize),
     min_notional_size |-> DecimalOf(rule.minNotional)]

\* the exception of an entry not caught
RuleHandler_Reraise(exc) == "raise"

\* lines 232-233: except Exception logs and goes on with the next entry
RuleHandler(exc) == "skip"

\* lines 216-234: the loop from entry i on, with retval and the number of
\* logged exceptions so far
RECURSIVE FormatTradingRules(_, _, _, _)
FormatTradingRules(list, i, retval, logged) ==
    IF i > Len(list)
    THEN [outcome |-> "returned", retval |-> retval, logged |-> logged]
    ELSE IF RuleError(list[i]) = "none"
    THEN FormatTradingRules(list, i + 1,
                            Append(retval, TradingRuleOf(list[i])), logged)
    ELSE IF RuleHandler(RuleError(list[i])) = "skip"
    THEN FormatTradingRules(list, i + 1, retval, logged + 1)
    ELSE [outcome |-> "raised", retval |-> <<>>, logged |-> logged]

InitRules ==
    /\ rulesInfo = <<>>
    /\ rulesRetval = <<>>
    /\ rulesLogged = 0
    /\ rulesOutcome = "none"

\* _format_trading_rules(exchange_info_dict), lines 214-234; it has no await
FormatRules ==
    /\ rulesOutcome = "none"
    /\ \E exchange_info_dict \in RuleLists :
          LET r == FormatTradingRules(exchange_info_dict, 1, <<>>, 0)
          IN  /\ rulesRetval' = r.retval
              /\ rulesLogged' = r.logged
              /\ rulesOutcome' = r.outcome
              /\ rulesInfo' = exchange_info_dict
    /\ UNCHANGED notRules

\* the caller has taken what the call gave; the function keeps nothing
\* from one call to the next
RulesTaken ==
    /\ rulesOutcome # "none"
    /\ rulesInfo' = <<>>
    /\ rulesRetval' = <<>>
    /\ rulesLogged' = 0
    /\ rulesOutcome' = "none"
    /\ UNCHANGED notRules

NextRules ==
    \/ FormatRules
    \/ RulesTaken

----------------------------------------------------------------------------
Init ==
    /\ InitListener /\ InitBalances /\ InitOrders /\ InitMerge /\ InitBook
    /\ InitMapper /\ InitRules

SpecListener == Init /\ [][NextListener]_vars

\* the event loop resumes a task whose sleep is over and runs the loop on
SpecListenerFair ==
    /\ Init /\ [][NextListener]_vars
    /\ WF_vars(BackoffTick) /\ WF_vars(StartFetch)

SpecBalances == Init /\ [][NextBalances]_vars

SpecOrders == Init /\ [][NextOrders]_vars

SpecMerge == Init /\ [][NextMerge]_vars

SpecBook == Init /\ [][NextBook]_vars

SpecMapper == Init /\ [][NextMapper]_vars

SpecRules == Init /\ [][NextRules]_vars

\* a symbol lookup a handler awaits comes to an end
SpecBookFair ==
    /\ Init /\ [][NextBook]_vars
    /\ \A h \in Handlers : WF_vars(HandlerFinish(h))

----------------------------------------------------------------------------
(* Properties of the user-stream listener *)

\* C6: cancellation is the only way out of the listener loop.  A
\* CancelledError produced by any await of the loop (the fetch, the delivery,
\* the backoff sleep) ends the loop in that very step, leaves it as a
\* CancelledError, logs no error and starts no backoff or fetch; any other
\* failure leads to the backoff and never out of the loop; and once out, the
\* loop does nothing more.
C6_CancellationOnlyExit ==
    [][ /\ (lpc # "Terminated" /\ lastSignal' = "CancelledError") =>
              /\ lpc' = "Terminated"
              /\ raised' = "CancelledError"
              /\ errorsLogged' = errorsLogged
              /\ lastError' = lastError
              /\ sleepLeft' = sleepLeft
              /\ fetches' = fetches
        /\ lpc' = "Terminated" =>
              /\ raised' = "CancelledError"
              /\ lastSignal' = "CancelledError"
        /\ (lpc # "Terminated" /\ lastSignal' = "Exception") =>
              /\ lpc' = "BackingOff"
              /\ raised' = "none"
        /\ lpc = "Terminated" => UNCHANGED listenerVars
      ]_vars

\* C6 witness: the loop was cancelled in the middle of its second backoff
C6_Witness ==
    /\ lpc = "Terminated"
    /\ raised = "CancelledError"
    /\ errorsLogged = 2
    /\ sleepLeft \in 1..4

\* C7: a fetch that follows a successful iteration starts with no time slept,
\* a fetch that follows a failed iteration starts after exactly one sleep of 5
\* time units, and a backoff is always followed by a new fetch unless the loop
\* is cancelled (no retry budget; MaxFetches only bounds the model).
C7_BackoffPolicy ==
    /\ [](lpc = "Fetching" =>
            /\ lastOutcome = "failed" => slept = 5
            /\ lastOutcome \in {"ok", "none"} => slept = 0)
    /\ [](lpc = "BackingOff" => (sleepLeft > 0 /\ slept + sleepLeft = 5))
    /\ ((lpc = "BackingOff" /\ fetches < MaxFetches)
            ~> (lpc = "Fetching" \/ lpc = "Terminated"))

\* C7 witness: the third fetch runs after two failed iterations and one
\* complete backoff since the last of them
C7_Witness ==
    /\ lpc = "Fetching"
    /\ lastOutcome = "failed"
    /\ slept = 5
    /\ errorsLogged = 2
    /\ fetches = 3

ListenerStates == {"Idle", "Fetching", "Delivering", "BackingOff"}

\* C8 as stated: between the states of the running loop only the transitions
\* Idle -> Fetching -> Delivering -> Idle and Fetching -> BackingOff -> Idle
\* take place.
C8_Original ==
    [][(lpc' # lpc /\ lpc' \in ListenerStates) =>
          <<lpc, lpc'>> \in {<<"Idle", "Fetching">>,
                             <<"Fetching", "Delivering">>,
                             <<"Delivering", "Idle">>,
                             <<"Fetching", "BackingOff">>,
                             <<"BackingOff", "Idle">>}]_vars

\* C8 amended: the transitions of the running loop are Idle -> Fetching ->
\* Delivering -> Idle on success and Fetching -> BackingOff -> Idle or
\* Delivering -> BackingOff -> Idle on failure; BackingOff is entered only
\* by a failure other than cancellation, Delivering only from a Fetching
\* step that succeeded, Idle from Delivering only when the delivery returned.
C8_Transitions ==
    [][(lpc' # lpc /\ lpc' \in ListenerStates) =>
          /\ <<lpc, lpc'>> \in {<<"Idle", "Fetching">>,
                                <<"Fetching", "Delivering">>,
                                <<"Delivering", "Idle">>,
                                <<"Fetching", "BackingOff">>,
                                <<"Delivering", "BackingOff">>,
                                <<"BackingOff", "Idle">>}
          /\ lpc' = "BackingOff" => lastSignal' = "Exception"
          /\ lpc' = "Delivering" => lastSignal' = "ok"
          /\ lpc = "Delivering" /\ lpc' = "Idle" => lastSignal' = "ok"]_vars

\* C8 witness: a backoff entered from Delivering (the payload of the running
\* fetch had been handed over when the failure came)
C8_Witness ==
    /\ lpc = "BackingOff"
    /\ sleepLeft = 5
    /\ fetches > 0
    /\ Len(delivered) > 0
    /\ delivered[Len(delivered)] = fetches

\* C19: the pipeline is handed a payload only in the step in which a fetch
\* returns it, and it is the payload of that fetch; so the payloads handed
\* over are payloads of fetches, each at most once, in fetch order.  While
\* the loop backs off and when it goes on nothing is handed over: the
\* payload whose delivery failed is not delivered again, the loop starts a
\* new fetch.
C19_DeliveredOnceInFetchOrder ==
    [][/\ delivered' # delivered =>
              /\ lpc = "Fetching" /\ fstep = "request"
              /\ lastSignal' = "ok"
              /\ lpc' = "Delivering"
              /\ data' = fetches
              /\ delivered' = Append(delivered, data')
       /\ \A i \in DOMAIN delivered' :
              /\ delivered'[i] \in 1..fetches'
              /\ \A j \in DOMAIN delivered' :
                    i < j => delivered'[i] < delivered'[j]
       /\ lpc = "BackingOff" =>
              /\ delivered' = delivered
              /\ lpc' \in {"BackingOff", "Idle", "Terminated"}
       /\ (lpc = "Idle" /\ lpc' # lpc) =>
              /\ lpc' = "Fetching"
              /\ fetches' = fetches + 1
              /\ delivered' = delivered]_vars

\* C19 witness: the delivery of the first payload failed, the loop backed
\* off, fetched again and handed over the second payload
C19_Witness ==
    /\ lpc = "Delivering"
    /\ fetches = 2 /\ data = 2
    /\ delivered = <<1, 2>>
    /\ errorsLogged = 1 /\ lastOutcome = "failed" /\ slept = 5

----------------------------------------------------------------------------
(* Properties of the balance refresh *)

\* the mapping a snapshot describes: each asset of it with its parsed value
SnapshotParses(snap) == \A i \in DOMAIN snap : IsDecimal(snap[i][2])
SnapshotMap(snap) ==
    [a \in {snap[i][1] : i \in DOMAIN snap} |->
        DecimalOf(snap[CHOOSE i \in DOMAIN snap : snap[i][1] = a][2])]

\* C9: after _update_balances completes with snapshot S both balance maps are
\* exactly S, whatever they held before: the values of S, and no other asset.
C9_ExactSnapshot ==
    refreshOutcome = "completed" =>
        /\ account_balances = SnapshotMap(lastSnapshot)
        /\ account_available_balances = SnapshotMap(lastSnapshot)

\* C9 witness: {A:1, B:2} refreshed with {A:3, C:4}
C9_Witness ==
    /\ refreshOutcome = "completed"
    /\ preBalances = [a \in {"A", "B"} |-> IF a = "A" THEN 1 ELSE 2]
    /\ lastSnapshot \in {<<<<"A", "3">>, <<"C", "4">>>>, <<<<"C", "4">>, <<"A", "3">>>>}
    /\ account_balances = [a \in {"A", "C"} |-> IF a = "A" THEN 3 ELSE 4]

\* C10 as stated: in every state the balance maps are either the complete old
\* snapshot (the maps as the running or last refresh found them) or the
\* complete new one (the whole snapshot it received), also when the refresh
\* stopped on a value that does not parse.
C10_Atomic ==
    LET isOld(m) == m = preBalances
        isNew(m) == SnapshotParses(lastSnapshot) /\ refreshOutcome = "completed"
                    /\ m = SnapshotMap(lastSnapshot)
    IN  /\ isOld(account_balances) \/ isNew(account_balances)
        /\ isOld(account_available_balances) \/ isNew(account_available_balances)

\* C20: when the request of _update_balances fails, the call ends with both
\* balance maps as they were when it began: the failing step changes neither,
\* and no asset was added, changed or evicted since the call started.
C20_FetchFailureKeepsBalances ==
    [][(bpc = "awaiting" /\ refreshOutcome' = "fetch_failed") =>
          /\ account_balances' = account_balances
          /\ account_available_balances' = account_available_balances
          /\ account_balances' = preBalances
          /\ account_available_balances' = preBalances
          /\ DOMAIN account_balances' = local_asset_names
          /\ bpc' = "idle"]_vars

\* C20 witness: the request failed with {A:1, B:2} in the maps
C20_Witness ==
    /\ refreshOutcome = "fetch_failed"
    /\ bpc = "idle"
    /\ preBalances = [a \in {"A", "B"} |-> IF a = "A" THEN 1 ELSE 2]
    /\ account_balances = preBalances
    /\ account_available_balances = preBalances

----------------------------------------------------------------------------
(* Properties of the order life cycle *)

Overloaded(resp) ==
    /\ resp.kind = "fail"
    /\ resp.cls = "IOError"
    /\ {Marker503, MarkerOverload} \subseteq resp.text

\* C1: when the create-order request fails with an IOError whose text holds
\* both the 503 marker and the overload message, _place_order does not raise:
\* it returns "UNKNOWN" with the time of the synchronized clock, and the order
\* stays tracked in the state it is in (PENDING_CREATE unless an update moved
\* it on meanwhile), with "UNKNOWN" as its exchange id if it had none.
C1_OverloadSoftSuccess ==
    [][\A oid \in OrderIds :
         (oid \in placing /\ oid \notin placing' /\ Overloaded(ev'.in)) =>
            /\ ev'.outcome = "returned"
            /\ ev'.id = "UNKNOWN"
            /\ ev'.ts = now
            /\ orders'[oid].phase = "tracked"
            /\ orders'[oid].state = orders[oid].state
            /\ orders[oid].exchange_order_id = "none" =>
                    orders'[oid].exchange_order_id = "UNKNOWN"]_vars

\* C1 witness: a soft success, the order pending under the sentinel
C1_Witness ==
    /\ ev.op = "place" /\ Overloaded(ev.in)
    /\ ev.id = "UNKNOWN" /\ ev.ts > 0
    /\ orders["o1"].phase = "tracked"
    /\ orders["o1"].state = "PENDING_CREATE"
    /\ orders["o1"].exchange_order_id = "UNKNOWN"

\* C2: when the create-order request fails with a failure that is not an
\* IOError holding both markers (one marker only, none, or another class),
\* _place_order raises, gives no exchange id, and the order is not tracked
\* from then on.
C2_OtherFailureRaises ==
    (ev.op = "place" /\ ev.in.kind = "fail" /\ ~Overloaded(ev.in)) =>
        /\ ev.outcome = "raised"
        /\ ev.id = "none"
        /\ orders[ev.oid].phase = "rejected"
        /\ ev.oid \notin placing

\* C2 witness: a 503 without the overload message was raised
C2_Witness ==
    /\ ev.op = "place"
    /\ ev.in.cls = "IOError" /\ ev.in.text = {Marker503}
    /\ ev.outcome = "raised"
    /\ orders["o1"].phase = "rejected"

\* C3: a status poll that finds the order pending under "UNKNOWN" and whose
\* response reports OPEN with an exchange id leaves the order OPEN with the
\* id of the response; the order has then been in PENDING_CREATE and OPEN only.
C3_AmbiguousPlacementReconciled ==
    [][\A oid \in OrderIds :
         (/\ oid \in polling /\ oid \notin polling'
          /\ ev'.in.kind = "ok" /\ ev'.in.status = "OPEN"
          /\ orders[oid].phase = "tracked"
          /\ orders[oid].state = "PENDING_CREATE"
          /\ orders[oid].exchange_order_id = "UNKNOWN") =>
            /\ orders'[oid].phase = "tracked"
            /\ orders'[oid].state = "OPEN"
            /\ orders'[oid].exchange_order_id = ev'.in.transaction_id
            /\ orders'[oid].exchange_order_id \in ExchangeIds
            /\ orders'[oid].visited = {"PENDING_CREATE", "OPEN"}]_vars

\* C3 witness: the poll met PENDING_CREATE/UNKNOWN and left OPEN/tx1
C3_Witness ==
    /\ ev.op = "poll" /\ ev.outcome = "returned"
    /\ ev.was = [state |-> "PENDING_CREATE", exchange_order_id |-> "UNKNOWN"]
    /\ orders["o1"].state = "OPEN"
    /\ orders["o1"].exchange_order_id = "tx1"

\* the two updates of the merge, by timestamp
MergeLater ==
    IF mPollAt > mStream.update_timestamp
    THEN [exchange_order_id |-> mPollResp.transaction_id,
          update_timestamp |-> mPollAt, new_state |-> mPollResp.status]
    ELSE [exchange_order_id |-> mStream.exchange_order_id,
          update_timestamp |-> mStream.update_timestamp,
          new_state |-> mStream.new_state]
MergeEarlier ==
    IF mPollAt > mStream.update_timestamp
    THEN [exchange_order_id |-> mStream.exchange_order_id,
          update_timestamp |-> mStream.update_timestamp,
          new_state |-> mStream.new_state]
    ELSE [exchange_order_id |-> mPollResp.transaction_id,
          update_timestamp |-> mPollAt, new_state |-> mPollResp.status]

C5_ForwardOnly ==
    [][\A oid \in OrderIds :
         /\ (orders[oid].phase = "tracked" /\ orders'[oid].phase = "tracked") =>
              /\ Rank(orders'[oid].state) >= Rank(orders[oid].state)
              /\ orders[oid].state \in TerminalStates =>
                    orders'[oid].state = orders[oid].state
              /\ ~(orders[oid].state = "PENDING_CANCEL"
                   /\ orders'[oid].state = "OPEN")
         /\ (/\ oid \in cancelling /\ oid \notin cancelling'
             /\ (ev'.in.kind = "fail"
                 \/ ev'.in.transaction_id \in {"", "absent"})) =>
              orders'[oid] = orders[oid]]_vars

\* C5 witness: a cancel answered with an empty transaction id left a partly
\* filled order as it was
C5_Witness ==
    /\ ev.op = "cancel" /\ ev.in.kind = "ok" /\ ev.in.transaction_id = ""
    /\ ev.outcome = "false"
    /\ ev.was.state = "PARTIALLY_FILLED"
    /\ orders["o1"].state = "PARTIALLY_FILLED"
    /\ orders["o1"].visited = {"PENDING_CREATE", "OPEN", "PARTIALLY_FILLED"}

\* C11: _place_cancel returns True exactly when the response to the cancel
\* request carries a transaction id; for a response whose "transaction_id" is
\* absent or empty it returns False, and the order is then as it was: tracked
\* if it was tracked, in the same state, under the same exchange id.
C11_CancelConfirmedIffTransactionId ==
    [][\A oid \in OrderIds :
         (oid \in cancelling /\ oid \notin cancelling' /\ ev'.in.kind = "ok") =>
            /\ ev'.op = "cancel"
            /\ ev'.outcome \in {"true", "false"}
            /\ ev'.outcome = "true" <=> ev'.in.transaction_id \in ExchangeIds
            /\ ev'.in.transaction_id \in {"", "absent"} =>
                  /\ ev'.outcome = "false"
                  /\ orders'[oid].phase = orders[oid].phase
                  /\ orders'[oid].state = orders[oid].state
                  /\ orders'[oid].exchange_order_id = orders[oid].exchange_order_id
                  /\ orders'[oid] = orders[oid]]_vars

\* C11 witness: a cancel answered without the "transaction_id" field returned
\* False and left the open order tx1 open
C11_Witness ==
    /\ ev.op = "cancel" /\ ev.in.kind = "ok" /\ ev.in.transaction_id = "absent"
    /\ ev.outcome = "false"
    /\ ev.was = [state |-> "OPEN", exchange_order_id |-> "tx1"]
    /\ orders["o1"].phase = "tracked"
    /\ orders["o1"].state = "OPEN"
    /\ orders["o1"].exchange_order_id = "tx1"

----------------------------------------------------------------------------
(* Properties of the handlers of public stream messages *)

\* the events on the queue of handler h
EventsOf(h) == {queues[h][i] : i \in DOMAIN queues[h]}

\* C12: a message with the key "result" that is handed to the trade or the
\* diff handler, whatever its other fields and however it came there, puts
\* no event on either queue and starts no symbol lookup: the handler returns
\* at once.  So no queue ever holds an event of such a message.
C12_ControlFrameNeverConverted ==
    [][/\ (handed' = handed + 1 /\ bev'.step = "start" /\ bev'.msg.result) =>
              /\ queues' = queues
              /\ lookups' = lookups
              /\ hpc' = hpc /\ hmsg' = hmsg
              /\ bev'.outcome = "returned"
       /\ \A h \in Handlers :
              /\ ~hmsg'[h].result
              /\ \A i \in DOMAIN queues'[h] : ~queues'[h][i].raw.result]_vars

\* C12 witness: the diff handler was handed a control frame that carries the
\* diff marker and a mapped market id, after a lookup for another message
C12_Witness ==
    /\ bev.step = "start" /\ bev.h = DiffKey /\ bev.outcome = "returned"
    /\ bev.msg.result /\ bev.msg.via = "direct"
    /\ bev.msg.e = DIFF_EVENT_TYPE /\ bev.msg.market_id = "ADA_GENS"
    /\ bev.msg.seq = 2
    /\ lookups = 1

\* C13: _channel_originating_message gives one of three channels for every
\* message: none ("") when the message has the key "result", whatever its
\* event type; the diff channel when it has no "result" and its event type is
\* the diff marker; the trade channel for every other message without
\* "result", the one with no event type included.
C13_ClassifyTotal ==
    (bev.step \in {"route", "start"} /\ bev.msg.via = "classified") =>
        /\ bev.channel \in {"", DiffKey, TradeKey}
        /\ bev.msg.result => bev.channel = ""
        /\ (~bev.msg.result /\ bev.msg.e = DIFF_EVENT_TYPE) =>
                bev.channel = DiffKey
        /\ (~bev.msg.result /\ bev.msg.e # DIFF_EVENT_TYPE) =>
                bev.channel = TradeKey
        /\ (~bev.msg.result /\ bev.msg.e = "absent") => bev.channel = TradeKey
        /\ bev.step = "route" <=> bev.channel = ""
        /\ bev.step = "start" => bev.h = bev.channel

\* C13 witness: a message with "result" and the diff marker was classified
\* as belonging to no channel
C13_Witness ==
    /\ bev.step = "route" /\ bev.msg.via = "classified"
    /\ bev.msg.result /\ bev.msg.e = DIFF_EVENT_TYPE
    /\ bev.channel = ""

\* a message the routing is about: classified, without "result", market mapped
Routable(msg) ==
    /\ msg.via = "classified"
    /\ ~msg.result
    /\ msg.market_id \in DOMAIN symbolMap

\* the channel of such a message, from its event type
ChannelOfType(e) == IF e = DIFF_EVENT_TYPE THEN DiffKey ELSE TradeKey

\* the routing up to now: every event is on the queue of its type and of
\* its channel, in arrival order, on one queue only; the last step on a
\* routable message took it to the lookup or to the end of its queue
RoutedSoFar ==
    /\ \A h \in Handlers : \A i \in DOMAIN queues[h] :
          /\ queues[h][i].type = h
          /\ Routable(queues[h][i].raw) => h = ChannelOfType(queues[h][i].raw.e)
          /\ \A j \in DOMAIN queues[h] :
                i < j => queues[h][i].raw.seq < queues[h][j].raw.seq
          /\ \A g \in Handlers \ {h} : \A j \in DOMAIN queues[g] :
                queues[g][j].raw.seq # queues[h][i].raw.seq
    /\ (bev.step = "start" /\ Routable(bev.msg)) =>
          /\ bev.h = ChannelOfType(bev.msg.e)
          /\ bev.outcome = "awaiting"
          /\ hpc[bev.h] = "lookup" /\ hmsg[bev.h] = bev.msg
    /\ (bev.step = "finish" /\ Routable(bev.msg)) =>
          /\ bev.outcome = "returned"
          /\ bev.h = ChannelOfType(bev.msg.e)
          /\ Len(queues[bev.h]) > 0
          /\ queues[bev.h][Len(queues[bev.h])] =
                [type |-> bev.h, trading_pair |-> symbolMap[bev.msg.market_id],
                 raw |-> bev.msg]

\* C14: a classified message without "result" whose market id is mapped
\* gives exactly one event, on the queue of its channel (diff queue for the
\* diff marker, trade queue otherwise) and on no other queue, and the events
\* of each queue are in the arrival order of their messages: the handler of
\* its channel takes the message, its lookup ends with the event appended to
\* that queue, no message has two events, and a message whose lookup is
\* awaited does get its event.
C14_RoutedOnceInOrder ==
    /\ [](RoutedSoFar)
    /\ \A h \in Handlers : \A n \in 1..MaxMessages :
          (hpc[h] = "lookup" /\ hmsg[h].seq = n /\ Routable(hmsg[h]))
              ~> (\E ev1 \in EventsOf(h) : ev1.raw.seq = n)

\* C14 witness: two classified messages, the first with no event type and
\* the second with the diff marker, gave the trade queue the event of the
\* first and the diff queue the event of the second
C14_Witness ==
    /\ Len(queues[TradeKey]) = 1 /\ Len(queues[DiffKey]) = 1
    /\ Routable(queues[TradeKey][1].raw) /\ Routable(queues[DiffKey][1].raw)
    /\ queues[TradeKey][1].raw.seq = 1 /\ queues[TradeKey][1].raw.e = "absent"
    /\ queues[DiffKey][1].raw.seq = 2
    /\ queues[DiffKey][1].trading_pair = "ADA-GENS"
    /\ hpc = [h \in Handlers |-> "idle"]

\* C15: when the market id of a message without "result" is not mapped, the
\* failure of the lookup leaves the handler as UnknownMappingError: the
\* handler does not return, and no queue gets an event for the message.
C15_UnmappedSymbolPropagates ==
    [][\A h \in Handlers :
         (/\ hpc[h] = "lookup" /\ hpc'[h] = "idle"
          /\ hmsg[h].market_id \notin DOMAIN symbolMap) =>
            /\ bev'.step = "finish" /\ bev'.h = h /\ bev'.msg = hmsg[h]
            /\ bev'.outcome = "raised"
            /\ bev'.error = "UnknownMappingError"
            /\ queues' = queues
            /\ \A g \in Handlers : \A i \in DOMAIN queues'[g] :
                    queues'[g][i].raw.seq # hmsg[h].seq]_vars

\* C15 witness: the trade handler raised on market FOO_BAR after the diff
\* handler had put an event for ADA_GENS
C15_Witness ==
    /\ bev.step = "finish" /\ bev.h = TradeKey
    /\ bev.outcome = "raised" /\ bev.error = "UnknownMappingError"
    /\ bev.msg.market_id = "FOO_BAR" /\ ~bev.msg.result
    /\ Len(queues[DiffKey]) = 1 /\ queues[TradeKey] = <<>>

----------------------------------------------------------------------------
(* Properties of the symbol map *)

\* the market ids of a list
SymbolsOf(list) == {list[i].market_id : i \in DOMAIN list}

\* the pair an entry names
PairOfEntry(entry) == entry.base_asset \o "-" \o entry.target_asset

\* a valid raw market list: every entry has its fields, and no two entries
\* with different market ids name the same pair
ValidMarketList(list) ==
    /\ \A i \in DOMAIN list : HasFields(list[i])
    /\ \A i, j \in DOMAIN list :
          list[i].market_id # list[j].market_id =>
              PairOfEntry(list[i]) # PairOfEntry(list[j])

\* no two symbols of m share a pair (no two pairs share a symbol: m is a
\* function)
Bijective(m) == \A s1, s2 \in DOMAIN m : m[s1] = m[s2] => s1 = s2

\* C16: after a rebuild with a valid raw market list the rebuild has
\* installed its map, every market id s of the list resolves to a pair, and
\* that pair resolves back to s; and the installed map is bijective at all
\* times.
C16_RoundTrip ==
    /\ Bijective(symbolMap)
    /\ (rpc = "idle" /\ rebuildOutcome # "none" /\ ValidMarketList(rlist)) =>
          /\ rebuildOutcome = "installed"
          /\ \A s \in SymbolsOf(rlist) :
                /\ TradingPairOfSymbol(s) # "none"
                /\ SymbolOfPair(TradingPairOfSymbol(s)) = s

\* C16 witness: the list of the two markets was installed over a map that
\* held FOO_BAR for the pair ADA-GENS
C16_Witness ==
    /\ rpc = "idle" /\ rebuildOutcome = "installed"
    /\ Len(rlist) = 2 /\ ValidMarketList(rlist)
    /\ SymbolsOf(rlist) = {"ADA_GENS", "FOO_BAR"}
    /\ symbolMap["ADA_GENS"] = "ADA-GENS" /\ symbolMap["FOO_BAR"] = "FOO-BAR"
    /\ DOMAIN prevMap = {"FOO_BAR"} /\ prevMap["FOO_BAR"] = "ADA-GENS"

\* the map a list describes: each market id with the pair of its last entry
MapOfList(list) ==
    [sym \in SymbolsOf(list) |->
        LET last == CHOOSE i \in DOMAIN list :
                        /\ list[i].market_id = sym
                        /\ \A j \in DOMAIN list : list[j].market_id = sym => j <= i
        IN  PairOfEntry(list[last])]

\* C17: the installed map is at all times either the complete map that was
\* there when the running or last rebuild started, or the complete map of
\* the list of that rebuild: while a rebuild runs and after one that failed
\* part-way it is the old map, after a completed rebuild it holds exactly
\* the entries of that rebuild's list, none of an earlier one.
C17_WholesaleAtomic ==
    /\ rebuildOutcome \in {"running", "failed"} => symbolMap = prevMap
    /\ rebuildOutcome = "installed" =>
          /\ symbolMap = MapOfList(rlist)
          /\ DOMAIN symbolMap = SymbolsOf(rlist)
    /\ rpc = "loop" <=> rebuildOutcome = "running"

\* C17 witness: after a completed rebuild that installed FOO_BAR alone, a
\* rebuild failed on its second entry, its first already in the new map,
\* and FOO_BAR alone is still installed
C17_Witness ==
    /\ rpc = "idle" /\ rebuildOutcome = "failed"
    /\ ridx = 2 /\ DOMAIN mapping = {"ADA_GENS"}
    /\ DOMAIN symbolMap = {"FOO_BAR"} /\ symbolMap["FOO_BAR"] = "FOO-BAR"
    /\ prevMap = symbolMap

----------------------------------------------------------------------------
(* Properties of the trading rules *)

\* an entry with every field in place and a number in each numeric field
WellFormedRule(rule) ==
    /\ rule.base_asset # "absent" /\ rule.target_asset # "absent"
    /\ rule.filters
    /\ \A k \in DOMAIN FilterFields :
          rule[FilterFields[k]] \in {"1", "2", "3", "4"}

\* the rules of the well-formed entries of a list, in list order
ExpectedRules(list) ==
    LET good == SelectSeq(list, WellFormedRule)
    IN  [i \in 1..Len(good) |->
            [trading_pair |-> good[i].base_asset \o "-" \o good[i].target_asset,
             min_order_size |-> DecimalOf(good[i].minQty),
             min_price_increment |-> DecimalOf(good[i].tickSize),
             min_base_amount_increment |-> DecimalOf(good[i].stepSize),
             min_notional_size |-> DecimalOf(good[i].minNotional)]]

----------------------------------------------------------------------------
(* Properties of the symbol lookup of _place_order *)

\* the pairs the symbol map holds
MappedPairs == {symbolMap[sym] : sym \in DOMAIN symbolMap}

\* C21: _place_order looks the symbol of the pair up before it sends the
\* create-order request.  A submit for a pair the symbol map does not hold
\* raises: it returns no exchange id, "UNKNOWN" least of all, sends no
\* request and leaves none in flight, and the order is not tracked; and
\* every request that is sent is for a pair the map holds.
C21_SymbolResolvedBeforeRequest ==
    [][\A oid \in OrderIds :
         /\ (/\ orders[oid].phase = "new" /\ orders'[oid].phase # "new"
             /\ orders'[oid].pair \notin MappedPairs) =>
                /\ ev'.op = "place" /\ ev'.oid = oid
                /\ ev'.outcome = "raised"
                /\ ev'.id = "none" /\ ev'.id # "UNKNOWN"
                /\ postsSent' = postsSent
                /\ placing' = placing /\ oid \notin placing'
                /\ orders'[oid].phase = "rejected"
                /\ orders'[oid].exchange_order_id = "none"
         /\ (oid \notin placing /\ oid \in placing') =>
                /\ postsSent' = postsSent + 1
                /\ orders'[oid].pair \in MappedPairs
                /\ SymbolOfPair(orders'[oid].pair) # "none"
         /\ postsSent' # postsSent => placing' # placing]_vars

\* C21 witness: the submit for FOO-BAR, which the map does not hold, raised
\* with no request sent
C21_Witness ==
    /\ ev.op = "place" /\ ev.outcome = "raised" /\ ev.in.kind = "none"
    /\ orders["o1"].phase = "rejected"
    /\ orders["o1"].pair = "FOO-BAR"
    /\ "FOO-BAR" \notin MappedPairs
    /\ postsSent = 0 /\ placing = {}

====
